---- MODULE Spec2Model ----
(***************************************************************************)
(* A model of forticare_automation.py: the configuration loader, the three *)
(* HTTP calls (token, products/list, products/details), the warranty       *)
(* lookup, the two CSV writers and the __main__ block that chains them.    *)
(*                                                                         *)
(* Text is modelled as sequences of one-character strings, so that the     *)
(* CSV writer's quoting and a reader's parsing are computed character by   *)
(* character.  Python values are tagged records [t, v].                    *)
(***************************************************************************)
EXTENDS Naturals, Sequences, FiniteSets, TLC

VARIABLES
    pc,          \* position of the running program / driver
    config,      \* parsed configuration: section name -> set of keys present
    glob,        \* module globals bound so far (name -> value)
    calls,       \* HTTP requests sent so far, with the response each one got
    log,         \* messages logged at level ERROR
    fs,          \* file system: path -> [exists, text]
    fs0,         \* the file system when the run (or the call) started
    call,        \* the function call being made by a driver: name and arguments
    result       \* outcome of the last call: [raised, exc, ret]

vars == <<pc, config, glob, calls, log, fs, fs0, call, result>>

----------------------------------------------------------------------------
(* Bounds of the model.                                                    *)

MaxLen == 2        \* longest field string drawn as input
MaxAssets == 2     \* longest list of assets / warranty entries drawn as input

----------------------------------------------------------------------------
(* Characters and strings.                                                 *)

DELIM == ";"
DQ == "\""
LF == "\n"
CR == "\r"

\* characters an API string is drawn from: a plain one, the delimiter,
\* the quote character and the two line-break characters
Chars == {"a", DELIM, DQ, LF, CR}

RECURSIVE StringsUpTo(_)
StringsUpTo(n) ==
    IF n = 0 THEN {<<>>}
    ELSE LET shorter == StringsUpTo(n - 1)
         IN  shorter \cup {Append(s, c) : s \in shorter, c \in Chars}

\* Python values; v is always a sequence, a bool being <<"1">> or <<"0">>
PyNone == [t |-> "None", v |-> <<>>]
PyStr(s) == [t |-> "str", v |-> s]
PyBool(b) == [t |-> "bool", v |-> IF b THEN <<"1">> ELSE <<"0">>]
PyList(l) == [t |-> "list", v |-> l]

\* Python's ==, which is False between values of different types
\* (str against bool, str against None)
PyEq(a, b) == a.t = b.t /\ a.v = b.v

----------------------------------------------------------------------------
(* csv.writer(f, delimiter=';'): the "excel" dialect with QUOTE_MINIMAL,   *)
(* quotechar '"', doublequote and lineterminator '\r\n'.                   *)

STrue == <<"T", "r", "u", "e">>
SFalse == <<"F", "a", "l", "s", "e">>

\* a writer that puts booleans as JSON does, in lower case
CsvStr_LowerCaseBool(val) ==
    IF val.t = "None" THEN <<>>
    ELSE IF val.t = "bool"
    THEN (IF val.v = <<"1">> THEN <<"t", "r", "u", "e">> ELSE <<"f", "a", "l", "s", "e">>)
    ELSE val.v

\* the writer's conversion of a field to text: None is written as the empty
\* string, a str as itself, anything else through str()
CsvStr(val) ==
    IF val.t = "None" THEN <<>>
    ELSE IF val.t = "bool" THEN (IF val.v = <<"1">> THEN STrue ELSE SFalse)
    ELSE val.v

\* a writer that does not quote for line breaks
QuoteTriggers_NoLineBreaks == {DELIM, DQ}

\* characters that force a field to be quoted: the delimiter, the quote
\* character and every character of the line terminator
QuoteTriggers == {DELIM, DQ, CR, LF}

NeedsQuote(s) == \E i \in 1..Len(s) : s[i] \in QuoteTriggers

RECURSIVE DoubleQuotes(_)
DoubleQuotes(s) ==
    IF s = <<>> THEN <<>>
    ELSE (IF Head(s) = DQ THEN <<DQ, DQ>> ELSE <<Head(s)>>) \o DoubleQuotes(Tail(s))

\* one field as written; a lone empty field is quoted so the row is not blank
CsvField(s, nfields) ==
    IF NeedsQuote(s) \/ (s = <<>> /\ nfields = 1)
    THEN <<DQ>> \o DoubleQuotes(s) \o <<DQ>>
    ELSE s

RECURSIVE JoinFields(_, _)
JoinFields(row, n) ==
    IF row = <<>> THEN <<>>
    ELSE CsvField(CsvStr(Head(row)), n)
         \o (IF Len(row) > 1 THEN <<DELIM>> ELSE <<>>)
         \o JoinFields(Tail(row), n)

\* writer.writerow
CsvRow(row) == JoinFields(row, Len(row)) \o <<CR, LF>>

\* writer.writerows
RECURSIVE CsvRows(_)
CsvRows(rows) ==
    IF rows = <<>> THEN <<>> ELSE CsvRow(Head(rows)) \o CsvRows(Tail(rows))

----------------------------------------------------------------------------
(* A reader of ';'-delimited CSV (csv.reader(f, delimiter=';') over a file *)
(* opened with newline=''), used to state what the written files hold.     *)
(* It is the reader's state machine, fed one character at a time, with the *)
(* end-of-line signal EOL after each physical line.                        *)

EOL == "EOL"

SaveField(st, next) == [s |-> next, f |-> <<>>, r |-> Append(st.r, st.f)]
AddChar(st, c, next) == [s |-> next, f |-> Append(st.f, c), r |-> st.r]
Goto(st, next) == [s |-> next, f |-> st.f, r |-> st.r]
AfterBreak(c) == IF c = EOL THEN "START_RECORD" ELSE "EAT_CRNL"

StartField(st, c) ==
    IF c \in {LF, CR, EOL} THEN SaveField(st, AfterBreak(c))
    ELSE IF c = DQ THEN Goto(st, "IN_QUOTED_FIELD")
    ELSE IF c = DELIM THEN SaveField(st, "START_FIELD")
    ELSE AddChar(st, c, "IN_FIELD")

ReaderStep(st, c) ==
    CASE st.s = "START_RECORD" ->
            IF c = EOL THEN st
            ELSE IF c \in {LF, CR} THEN Goto(st, "EAT_CRNL")
            ELSE StartField(st, c)
      [] st.s = "START_FIELD" -> StartField(st, c)
      [] st.s = "IN_FIELD" ->
            IF c \in {LF, CR, EOL} THEN SaveField(st, AfterBreak(c))
            ELSE IF c = DELIM THEN SaveField(st, "START_FIELD")
            ELSE AddChar(st, c, "IN_FIELD")
      [] st.s = "IN_QUOTED_FIELD" ->
            IF c = EOL THEN st
            ELSE IF c = DQ THEN Goto(st, "QUOTE_IN_QUOTED_FIELD")
            ELSE AddChar(st, c, "IN_QUOTED_FIELD")
      [] st.s = "QUOTE_IN_QUOTED_FIELD" ->
            IF c = DQ THEN AddChar(st, c, "IN_QUOTED_FIELD")
            ELSE IF c = DELIM THEN SaveField(st, "START_FIELD")
            ELSE IF c \in {LF, CR, EOL} THEN SaveField(st, AfterBreak(c))
            ELSE AddChar(st, c, "IN_FIELD")
      [] OTHER ->  \* EAT_CRNL
            IF c = EOL THEN Goto(st, "START_RECORD") ELSE st

FreshRecord == [s |-> "START_RECORD", f |-> <<>>, r |-> <<>>]

\* a physical line ends after LF, or after a CR that no LF follows
EndsLine(text, i) ==
    \/ text[i] = LF
    \/ text[i] = CR /\ (i = Len(text) \/ text[i + 1] # LF)

\* the reader between two characters: the state machine, whether the
\* current line has begun, and the records returned so far
FreshReader == [st |-> FreshRecord, lineOpen |-> FALSE, out |-> <<>>]

\* one character of the text; at the end of a line the EOL signal follows,
\* and the record is returned if the machine is back at START_RECORD
Feed(rd, text, i) ==
    LET a == ReaderStep(rd.st, text[i])
    IN  IF EndsLine(text, i)
        THEN LET e == ReaderStep(a, EOL)
             IN  IF e.s = "START_RECORD"
                 THEN [st |-> FreshRecord, lineOpen |-> FALSE, out |-> Append(rd.out, e.r)]
                 ELSE [st |-> e, lineOpen |-> FALSE, out |-> rd.out]
        ELSE [st |-> a, lineOpen |-> TRUE, out |-> rd.out]

\* the characters lo..hi in order, the first half and then the second
\* (the test on the first half's result has it computed before the second
\* half starts, which keeps the evaluation shallow)
RECURSIVE FeedRange(_, _, _, _)
FeedRange(rd, text, lo, hi) ==
    IF lo > hi THEN rd
    ELSE IF lo = hi THEN Feed(rd, text, lo)
    ELSE LET mid == (lo + hi) \div 2
             first == FeedRange(rd, text, lo, mid)
         IN  IF first.lineOpen \in BOOLEAN
             THEN FeedRange(first, text, mid + 1, hi)
             ELSE first

\* the end of the input: an unfinished last line still gets its EOL, and a
\* field left open is closed
AtEnd(rd) ==
    IF rd.lineOpen
    THEN LET e == ReaderStep(rd.st, EOL)
         IN  IF e.s = "START_RECORD" THEN Append(rd.out, e.r)
             ELSE Append(rd.out, Append(e.r, e.f))
    ELSE IF rd.st.s = "IN_QUOTED_FIELD" THEN Append(rd.out, Append(rd.st.r, rd.st.f))
    ELSE rd.out

\* the records of a CSV text, each a sequence of field strings
ParseCsv(text) == AtEnd(FeedRange(FreshReader, text, 1, Len(text)))

----------------------------------------------------------------------------
(* The file system and the two CSV writers.                                *)

WarrantyPath == "warranty_supports_FGT60XXXXXXX.csv"
AssetsPath == "assets.csv"
Paths == {WarrantyPath, AssetsPath}

NoFile == [exists |-> FALSE, text |-> <<>>]

\* the file opened in mode 'a': the rows follow what the file held
OpenAndWrite_Append(fsys, file_name, csv_content) ==
    [fsys EXCEPT ![file_name] =
        [exists |-> TRUE, text |-> fsys[file_name].text \o CsvRows(csv_content)]]

\* open(file_name, 'w', newline='', encoding='utf-8'), writerows(csv_content)
\* and the close at the end of the with block: the file is created or
\* truncated and then holds exactly the rows written
OpenAndWrite(fsys, file_name, csv_content) ==
    [fsys EXCEPT ![file_name] = [exists |-> TRUE, text |-> CsvRows(csv_content)]]

Raised(exc, fsys) == [raised |-> TRUE, exc |-> exc, fs |-> fsys]
Returned(fsys) == [raised |-> FALSE, exc |-> "", fs |-> fsys]

AssetHeader ==
    <<PyStr(<<"S", "e", "r", "i", "a", "l", " ", "N", "u", "m", "b", "e", "r">>),
      PyStr(<<"D", "e", "s", "c", "r", "i", "p", "t", "i", "o", "n">>),
      PyStr(<<"M", "o", "d", "e", "l">>),
      PyStr(<<"D", "e", "c", "o", "m", "m", "i", "s", "s", "i", "o", "n", "e", "d">>),
      PyStr(<<"R", "e", "g", "i", "s", "t", "e", "r", " ", "D", "a", "t", "e">>)>>

AssetKeys ==
    <<"serialNumber", "description", "productModel", "isDecommissioned", "registrationDate">>

WsHeader ==
    <<PyStr(<<"S", "u", "p", "p", "o", "r", "t", " ", "t", "y", "p", "e">>),
      PyStr(<<"S", "u", "p", "p", "o", "r", "t", " ", "l", "e", "v", "e", "l">>),
      PyStr(<<"E", "x", "p", "i", "r", "a", "t", "i", "o", "n", " ", "d", "a", "t", "e">>)>>

WsKeys == <<"typeDesc", "levelDesc", "endDate">>

HasKeys(d, keys) == \A i \in 1..Len(keys) : keys[i] \in DOMAIN d

\* [d[k1], d[k2], ...]
RowOf(d, keys) == [i \in 1..Len(keys) |-> d[keys[i]]]

\* the loop that fills csv_content after the header
RowsOf(items, keys) == [i \in 1..Len(items) |-> RowOf(items[i], keys)]

\* the file opened before the rows are built: a failure while building
\* leaves it created and empty
assets_to_csv_OpenFirst(assets_list, file_name, fsys) ==
    LET opened == [fsys EXCEPT ![file_name] = [exists |-> TRUE, text |-> <<>>]]
    IN  IF assets_list.t # "list" THEN Raised("TypeError", opened)
        ELSE IF \E i \in 1..Len(assets_list.v) : ~HasKeys(assets_list.v[i], AssetKeys)
        THEN Raised("KeyError", opened)
        ELSE Returned(OpenAndWrite(fsys, file_name,
                                   <<AssetHeader>> \o RowsOf(assets_list.v, AssetKeys)))

assets_to_csv(assets_list, file_name, fsys) ==
    IF assets_list.t # "list" THEN Raised("TypeError", fsys)
    ELSE IF \E i \in 1..Len(assets_list.v) : ~HasKeys(assets_list.v[i], AssetKeys)
    THEN Raised("KeyError", fsys)
    ELSE Returned(OpenAndWrite(fsys, file_name,
                               <<AssetHeader>> \o RowsOf(assets_list.v, AssetKeys)))

warranty_supports_to_csv(warranty_supports, file_name, fsys) ==
    IF warranty_supports.t # "list" THEN Raised("TypeError", fsys)
    ELSE IF \E i \in 1..Len(warranty_supports.v) : ~HasKeys(warranty_supports.v[i], WsKeys)
    THEN Raised("KeyError", fsys)
    ELSE Returned(OpenAndWrite(fsys, file_name,
                               <<WsHeader>> \o RowsOf(warranty_supports.v, WsKeys)))

----------------------------------------------------------------------------
(* Configuration file and init_forticare.                                  *)

ForticareKeys == <<"url", "client_id", "api_id", "api_password">>
CustomerauthKeys == <<"url">>

\* the value the file gives a key, when the key is there
ConfigValue(section, key) ==
    IF section = "customerauth" THEN "https://customerapiauth/"
    ELSE IF key = "url" THEN "https://support/"
    ELSE key

SectionWith(section, keys) == [k \in keys |-> ConfigValue(section, k)]

\* every configuration file: each section absent, or present with any
\* subset of its keys
Configs ==
    LET fc == {[s \in {"forticare"} |-> SectionWith("forticare", ks)] :
                   ks \in SUBSET {ForticareKeys[i] : i \in 1..Len(ForticareKeys)}}
              \cup {[s \in {} |-> 0]}
        ca == {[s \in {"customerauth"} |-> SectionWith("customerauth", ks)] :
                   ks \in SUBSET {"url"}}
              \cup {[s \in {} |-> 0]}
    IN  {a @@ b : a \in fc, b \in ca}

\* the KeyError of config[section][key] for the first of keys that fails:
\* the section's name when the section is absent, else the key; "" if none
RECURSIVE FirstMissingKey(_, _)
FirstMissingKey(present, keys) ==
    IF keys = <<>> THEN ""
    ELSE IF Head(keys) \notin present THEN Head(keys)
    ELSE FirstMissingKey(present, Tail(keys))

MissingIn(cfg, section, keys) ==
    IF section \notin DOMAIN cfg THEN section
    ELSE FirstMissingKey(DOMAIN cfg[section], keys)

\* init_forticare without its second try block: a missing customerauth
\* url is taken as empty
init_forticare_NoCustomerauthCheck(cfg) ==
    LET m1 == MissingIn(cfg, "forticare", ForticareKeys)
        m2 == MissingIn(cfg, "customerauth", CustomerauthKeys)
    IN  IF m1 # "" THEN [quit |-> TRUE, error |-> <<"Missing key", m1>>, ret |-> <<>>]
        ELSE [quit |-> FALSE, error |-> <<>>,
              ret |-> <<cfg["forticare"]["url"], cfg["forticare"]["client_id"],
                        cfg["forticare"]["api_id"], cfg["forticare"]["api_password"],
                        IF m2 # "" THEN "" ELSE cfg["customerauth"]["url"]>>]

\* init_forticare: quit() after logging the first missing key, else the
\* five values
init_forticare(cfg) ==
    LET m1 == MissingIn(cfg, "forticare", ForticareKeys)
        m2 == MissingIn(cfg, "customerauth", CustomerauthKeys)
    IN  IF m1 # "" THEN [quit |-> TRUE, error |-> <<"Missing key", m1>>, ret |-> <<>>]
        ELSE IF m2 # "" THEN [quit |-> TRUE, error |-> <<"Missing key", m2>>, ret |-> <<>>]
        ELSE [quit |-> FALSE, error |-> <<>>,
              ret |-> <<cfg["forticare"]["url"], cfg["forticare"]["client_id"],
                        cfg["forticare"]["api_id"], cfg["forticare"]["api_password"],
                        cfg["customerauth"]["url"]>>]

----------------------------------------------------------------------------
(* HTTP: requests.post and the three API functions.                        *)

NoAuth == <<>>
Bearer(token) == <<"Bearer ", token>>

Request(endpoint, base, auth, payload) ==
    [endpoint |-> endpoint, url |-> <<base, endpoint>>, auth |-> auth, payload |-> payload]

\* outcome of a function that may send requests
Raise(exc, sent) == [raised |-> TRUE, exc |-> exc, ret |-> <<>>, sent |-> sent]
Return(ret, sent) == [raised |-> FALSE, exc |-> "", ret |-> ret, sent |-> sent]

\* requests.post(...) raising, r.json() raising, and r.json()[key] raising,
\* in the order the code meets them; "" when none does.  The status code of
\* the response is never looked at.
PostError(resp) == IF resp.kind = "neterr" THEN "ConnectionError" ELSE ""
JsonError(resp) == IF ~resp.valid THEN "JSONDecodeError" ELSE ""
KeyError(obj, key) == IF key \notin DOMAIN obj THEN "KeyError" ELSE ""

RECURSIVE FirstError(_)
FirstError(errs) ==
    IF errs = <<>> THEN ""
    ELSE IF Head(errs) # "" THEN Head(errs)
    ELSE FirstError(Tail(errs))

\* the two tokens returned in the other order
LoginReturn_Swapped(obj) == <<obj["refresh_token"], obj["access_token"]>>

\* what forticare_login returns from the decoded body
LoginReturn(obj) == <<obj["access_token"], obj["refresh_token"]>>

forticare_login(customerauth_url, forticare_client_id, forticare_api_id, forticare_api_password, resp) ==
    LET req == Request("token/", customerauth_url, NoAuth,
                       <<forticare_api_id, forticare_api_password,
                         forticare_client_id, "password">>)
        err == FirstError(<<PostError(resp), JsonError(resp),
                            KeyError(resp.obj, "message"),
                            KeyError(resp.obj, "access_token"),
                            KeyError(resp.obj, "refresh_token")>>)
    IN  IF err # "" THEN Raise(err, <<req>>)
        ELSE Return(LoginReturn(resp.obj), <<req>>)

\* the token forticare_list_assets puts in its header: its parameter
ListAuthToken(forticare_bearer_token, g) == forticare_bearer_token

forticare_list_assets(forticare_url, forticare_bearer_token, g, resp) ==
    LET req == Request("products/list", forticare_url,
                       Bearer(ListAuthToken(forticare_bearer_token, g)),
                       <<"2040-01-01T00:00:00+0:00">>)
        err == FirstError(<<PostError(resp), JsonError(resp),
                            KeyError(resp.obj, "message"),
                            KeyError(resp.obj, "assets")>>)
    IN  IF err # "" THEN Raise(err, <<req>>)
        ELSE Return(resp.obj["assets"], <<req>>)

\* the token forticare_product_details puts in its header: the parameter is
\* named bearer_token, the body reads forticare_bearer_token, which is the
\* module global of that name
DetailsAuthToken(bearer_token, g) == g["forticare_bearer_token"]

forticare_product_details(forticare_url, bearer_token, serial_number, g, resp) ==
    IF "forticare_bearer_token" \notin DOMAIN g THEN Raise("NameError", <<>>)
    ELSE
    LET req == Request("products/details", forticare_url,
                       Bearer(DetailsAuthToken(bearer_token, g)),
                       <<serial_number>>)
        err == FirstError(<<PostError(resp), JsonError(resp),
                            KeyError(resp.obj, "message")>>)
    IN  IF err # "" THEN Raise(err, <<req>>)
        ELSE Return(resp.obj, <<req>>)

\* forticare_warranty_supports: reads the globals forticare_url and
\* forticare_bearer_token; the outcome also carries what it logged
forticare_warranty_supports(serial_number, g, resp) ==
    IF "forticare_url" \notin DOMAIN g \/ "forticare_bearer_token" \notin DOMAIN g
    THEN Raise("NameError", <<>>) @@ [logged |-> <<>>]
    ELSE
    LET d == forticare_product_details(g["forticare_url"], g["forticare_bearer_token"],
                                       serial_number, g, resp)
    IN  IF d.raised THEN d @@ [logged |-> <<>>]
        ELSE IF "assetDetails" \notin DOMAIN d.ret
        THEN Raise("KeyError", d.sent) @@ [logged |-> <<>>]
        ELSE IF d.ret["assetDetails"].t # "dict"
        THEN Raise("TypeError", d.sent) @@ [logged |-> <<>>]
        ELSE IF "warrantySupports" \notin DOMAIN d.ret["assetDetails"].v
        THEN Raise("KeyError", d.sent) @@ [logged |-> <<>>]
        ELSE LET warranty_supports == d.ret["assetDetails"].v["warrantySupports"]
             IN  Return(warranty_supports, d.sent)
                 @@ [logged |-> IF warranty_supports.t = "None"
                                THEN <<<<"No warranty supports found">>>>
                                ELSE <<>>]

----------------------------------------------------------------------------
(* Inputs: what the API may answer and what the writers may be given.      *)

Tokens == {"T", "R"}
Statuses == {200, 500}

EmptyObj == [k \in {} |-> 0]
PyDict(d) == [t |-> "dict", v |-> d]
Restrict(f, D) == [k \in D |-> f[k]]

\* every JSON object holding any subset of the keys of one of the objects
PartsOf(objects, keys) == {Restrict(o, D) : o \in objects, D \in SUBSET keys}

NetErr == [kind |-> "neterr", status |-> 0, valid |-> FALSE, obj |-> EmptyObj]

\* a connection error, or any status with a body that is not JSON or is one
\* of the JSON objects
Responses(bodies) ==
    {NetErr}
    \cup {[kind |-> "http", status |-> st, valid |-> FALSE, obj |-> EmptyObj] :
              st \in Statuses}
    \cup {[kind |-> "http", status |-> st, valid |-> TRUE, obj |-> b] :
              st \in Statuses, b \in bodies}

TokenResponses ==
    Responses(PartsOf([message : {"ok"}, access_token : Tokens, refresh_token : Tokens],
                      {"message", "access_token", "refresh_token"}))

Plain == <<"a">>

\* warranty entries: one plain, one whose strings all need quoting, one
\* without its endDate
PlainEntry ==
    [typeDesc |-> PyStr(Plain), levelDesc |-> PyStr(Plain), endDate |-> PyStr(Plain)]
QuotedEntry ==
    [typeDesc |-> PyStr(<<DQ>>), levelDesc |-> PyStr(<<DELIM, LF>>), endDate |-> PyStr(<<CR>>)]
FillerEntries == {PlainEntry, QuotedEntry}

PlainAsset ==
    [serialNumber |-> PyStr(Plain), description |-> PyStr(Plain),
     productModel |-> PyStr(Plain), isDecommissioned |-> PyBool(FALSE),
     registrationDate |-> PyStr(Plain)]
QuotedAsset ==
    [serialNumber |-> PyStr(<<DQ>>), description |-> PyStr(<<DELIM, LF>>),
     productModel |-> PyStr(<<CR>>), isDecommissioned |-> PyBool(TRUE),
     registrationDate |-> PyNone]
FillerAssets == {PlainAsset, QuotedAsset}

Pool == StringsUpTo(MaxLen)
KeySet(keys) == {keys[i] : i \in 1..Len(keys)}

\* what the field before the varied one holds: nothing, or a lone quote
Neighbours == {<<>>, <<DQ>>}

\* records with every key, one string drawn from the pool next to one of
\* the neighbours, and a null date; and records of plain values that lack
\* one key
VariedEntries ==
    {[typeDesc |-> PyStr(b), levelDesc |-> PyStr(a), endDate |-> PyNone] :
         a \in Pool, b \in Neighbours}
    \cup {Restrict(PlainEntry, KeySet(WsKeys) \ {k}) : k \in KeySet(WsKeys)}

VariedAssets ==
    {[serialNumber |-> PyStr(b), description |-> PyStr(a), productModel |-> PyStr(Plain),
      isDecommissioned |-> PyBool(TRUE), registrationDate |-> PyNone] :
         a \in Pool, b \in Neighbours}
    \cup {Restrict(PlainAsset, KeySet(AssetKeys) \ {k}) : k \in KeySet(AssetKeys)}

\* sequences of at most n fillers
RECURSIVE SeqsUpTo(_, _)
SeqsUpTo(S, n) ==
    IF n = 0 THEN {<<>>}
    ELSE LET shorter == SeqsUpTo(S, n - 1)
         IN  shorter \cup {Append(q, x) : q \in shorter, x \in S}

\* lists of at most MaxAssets records: fillers, with at most one varied
\* record at any position
ListsOf(fillers, varied) ==
    LET fs_ == SeqsUpTo(fillers, MaxAssets)
    IN  fs_ \cup UNION {{[q EXCEPT ![i] = x] : i \in 1..Len(q), x \in varied} : q \in fs_}

EntryWithoutEndDate == Restrict(PlainEntry, {"typeDesc", "levelDesc"})

\* what products/details may hold under assetDetails: null, an object
\* without warrantySupports, or one whose warrantySupports is null or a list
AssetDetailsValues ==
    {PyNone, PyDict(EmptyObj), PyDict([warrantySupports |-> PyNone])}
    \cup {PyDict([warrantySupports |-> PyList(l)]) :
              l \in SeqsUpTo(FillerEntries \cup {EntryWithoutEndDate}, MaxAssets)}

DetailsResponses ==
    Responses(PartsOf([message : {"ok"}, assetDetails : AssetDetailsValues],
                      {"message", "assetDetails"}))

ListResponses ==
    Responses(PartsOf([message : {"ok"},
                       assets : {PyList(l) : l \in SeqsUpTo(FillerAssets, 1)}],
                      {"message", "assets"}))

\* a file left by something else: the one line "old"
OldText == CsvRows(<<<<PyStr(<<"o", "l", "d">>)>>>>)

\* the file system before a run: no file, or both paths holding a file
\* from an earlier run
InitialFs ==
    {[p \in Paths |-> NoFile], [p \in Paths |-> [exists |-> TRUE, text |-> OldText]]}

NoCall == [fn |-> "", arg |-> PyNone, file_name |-> "", token |-> ""]
NoResult == [raised |-> FALSE, exc |-> "", ret |-> <<>>]

----------------------------------------------------------------------------
(* The program: the __main__ block, one action per statement.              *)

SerialNumber == "FGT60XXXXXXX"

Bind(g, names, values) ==
    [n \in DOMAIN g \cup KeySet(names) |->
        IF n \in KeySet(names)
        THEN values[CHOOSE i \in 1..Len(names) : names[i] = n]
        ELSE g[n]]

Init ==
    /\ pc = "init_logging"
    /\ config \in Configs
    /\ glob = EmptyObj
    /\ calls = <<>>
    /\ log = <<>>
    /\ fs \in InitialFs
    /\ fs0 = fs
    /\ call = NoCall
    /\ result = NoResult

\* line 265
MainInitLogging ==
    /\ pc = "init_logging"
    /\ glob' = Bind(glob, <<"logger">>, <<"logger">>)
    /\ pc' = "init_forticare"
    /\ UNCHANGED <<config, calls, log, fs, fs0, call, result>>

\* line 267: quit() raises SystemExit, which nothing catches
MainInitForticare ==
    /\ pc = "init_forticare"
    /\ LET r == init_forticare(config)
       IN  IF r.quit
           THEN /\ log' = Append(log, r.error)
                /\ result' = [raised |-> TRUE, exc |-> "SystemExit", ret |-> <<>>]
                /\ pc' = "exited"
                /\ UNCHANGED glob
           ELSE /\ glob' = Bind(glob, <<"forticare_url", "forticare_client_id",
                                        "forticare_api_id", "forticare_api_password",
                                        "customerauth_url">>, r.ret)
                /\ pc' = "login"
                /\ UNCHANGED <<log, result>>
    /\ UNCHANGED <<config, calls, fs, fs0, call>>

Exchange(sent, resp) == [i \in 1..Len(sent) |-> [req |-> sent[i], resp |-> resp]]

\* line 268
MainLogin ==
    /\ pc = "login"
    /\ \E resp \in TokenResponses :
          LET o == forticare_login(glob["customerauth_url"], glob["forticare_client_id"],
                                   glob["forticare_api_id"],
                                   glob["forticare_api_password"], resp)
          IN  /\ calls' = calls \o Exchange(o.sent, resp)
              /\ result' = [raised |-> o.raised, exc |-> o.exc, ret |-> <<>>]
              /\ IF o.raised
                 THEN pc' = "crashed" /\ UNCHANGED glob
                 ELSE /\ glob' = Bind(glob, <<"forticare_bearer_token",
                                              "forticare_refresh_token">>, o.ret)
                      /\ pc' = "warranty_supports"
    /\ UNCHANGED <<config, log, fs, fs0, call>>

\* lines 270-271
MainWarrantySupports ==
    /\ pc = "warranty_supports"
    /\ \E resp \in DetailsResponses :
          LET g == Bind(glob, <<"serial_number">>, <<SerialNumber>>)
              o == forticare_warranty_supports(g["serial_number"], g, resp)
          IN  /\ calls' = calls \o Exchange(o.sent, resp)
              /\ log' = log \o o.logged
              /\ result' = [raised |-> o.raised, exc |-> o.exc, ret |-> <<>>]
              /\ IF o.raised
                 THEN pc' = "crashed" /\ glob' = g
                 ELSE /\ glob' = Bind(g, <<"warranty_supports">>, <<o.ret>>)
                      /\ pc' = "to_csv"
    /\ UNCHANGED <<config, fs, fs0, call>>

\* line 272
MainToCsv ==
    /\ pc = "to_csv"
    /\ LET o == warranty_supports_to_csv(glob["warranty_supports"], WarrantyPath, fs)
       IN  /\ fs' = o.fs
           /\ result' = [raised |-> o.raised, exc |-> o.exc, ret |-> <<>>]
           /\ pc' = IF o.raised THEN "crashed" ELSE "done"
    /\ UNCHANGED <<config, glob, calls, log, fs0, call>>

Next ==
    \/ MainInitLogging
    \/ MainInitForticare
    \/ MainLogin
    \/ MainWarrantySupports
    \/ MainToCsv

Spec == Init /\ [][Next]_vars

----------------------------------------------------------------------------
(* Properties of a run of the program (specification Spec).                *)

RequiredKeysPresent ==
    /\ "forticare" \in DOMAIN config
    /\ {"url", "client_id", "api_id", "api_password"} \subseteq DOMAIN config["forticare"]
    /\ "customerauth" \in DOMAIN config
    /\ "url" \in DOMAIN config["customerauth"]

ConfigLoaded == pc \notin {"init_logging", "init_forticare"}

CsvWritten == fs # fs0

MissingKeyLogged == \E i \in 1..Len(log) : log[i][1] = "Missing key"

\* C1: when the configuration lacks a required key (or its section),
\* init_forticare logs the error and ends the run; in no state of such a
\* run has an HTTP request been sent or a file been written.
C1_MissingKeyStopsRun ==
    ~RequiredKeysPresent =>
        /\ calls = <<>>
        /\ ~CsvWritten
        /\ ConfigLoaded => (pc = "exited" /\ MissingKeyLogged)

\* a run stopped by a configuration that has everything but api_id
C1_Witness ==
    /\ pc = "exited"
    /\ "forticare" \in DOMAIN config
    /\ DOMAIN config["forticare"] = {"url", "client_id", "api_password"}
    /\ "customerauth" \in DOMAIN config
    /\ "url" \in DOMAIN config["customerauth"]
    /\ log = <<<<"Missing key", "api_id">>>>

HasWarrantySupports(obj) ==
    /\ "assetDetails" \in DOMAIN obj
    /\ obj["assetDetails"].t = "dict"
    /\ "warrantySupports" \in DOMAIN obj["assetDetails"].v

\* the products/details call of the run was answered with
\* assetDetails.warrantySupports = null
NullWarrantyAnswer ==
    /\ Len(calls) = 2
    /\ calls[2].req.endpoint = "products/details"
    /\ calls[2].resp.valid
    /\ "message" \in DOMAIN calls[2].resp.obj
    /\ HasWarrantySupports(calls[2].resp.obj)
    /\ calls[2].resp.obj["assetDetails"].v["warrantySupports"].t = "None"

HeaderOnly(header) == <<[i \in 1..Len(header) |-> header[i].v]>>

\* C3: after a products/details answer whose assetDetails.warrantySupports
\* is null, the lookup has logged an error, nothing has raised, and once
\* warranty_supports_to_csv has run the file holds the header row alone.
C3_NullWarrantyGivesHeaderOnly ==
    NullWarrantyAnswer =>
        /\ <<"No warranty supports found">> \in {log[i] : i \in 1..Len(log)}
        /\ pc \in {"to_csv", "done"}
        /\ pc = "done" =>
              /\ fs[WarrantyPath].exists
              /\ ParseCsv(fs[WarrantyPath].text) = HeaderOnly(WsHeader)

SuccessStatus(st) == st >= 200 /\ st < 300

\* an API call that failed: a non-success status, a body that is not JSON,
\* or a documented field of the response missing
CallFailed(c) ==
    \/ c.resp.kind = "http" /\ ~SuccessStatus(c.resp.status)
    \/ c.resp.kind = "http" /\ ~c.resp.valid
    \/ /\ c.resp.kind = "http" /\ c.resp.valid
       /\ \/ "message" \notin DOMAIN c.resp.obj
          \/ /\ c.req.endpoint = "token/"
             /\ ~({"access_token", "refresh_token"} \subseteq DOMAIN c.resp.obj)
          \/ /\ c.req.endpoint = "products/details"
             /\ ~HasWarrantySupports(c.resp.obj)

\* C5: a failed API call is the last request of the run, which has
\* aborted there without writing a file.
C5_FailedCallAbortsRun ==
    \A i \in 1..Len(calls) :
        CallFailed(calls[i]) =>
            /\ i = Len(calls)
            /\ pc = "crashed"
            /\ ~CsvWritten

\* C7: requests go out in the order token, products/details, one each at
\* most and none to products/list; the token request follows the loading
\* of the configuration; the details request follows a token answer and
\* carries the access token of that answer; the file is written only
\* after the details answer has been received.
C7_StepsInOrder ==
    /\ Len(calls) <= 2
    /\ calls # <<>> =>
          /\ ConfigLoaded /\ RequiredKeysPresent
          /\ calls[1].req.endpoint = "token/"
    /\ Len(calls) = 2 =>
          /\ calls[2].req.endpoint = "products/details"
          /\ calls[1].resp.kind = "http" /\ calls[1].resp.valid
          /\ "access_token" \in DOMAIN calls[1].resp.obj
          /\ calls[2].req.auth = Bearer(calls[1].resp.obj["access_token"])
    /\ CsvWritten =>
          /\ pc = "done"
          /\ Len(calls) = 2
          /\ calls[2].resp.kind = "http" /\ calls[2].resp.valid

\* a complete run: both requests sent, the access token differing from the
\* refresh token, and the file written
C7_Witness ==
    /\ pc = "done"
    /\ Len(calls) = 2
    /\ calls[1].resp.obj["access_token"] # calls[1].resp.obj["refresh_token"]
    /\ CsvWritten

----------------------------------------------------------------------------
(* The API functions called one at a time (specification SpecApi): the     *)
(* module's functions called with any arguments, the globals being those   *)
(* that lines 267-268 bind.                                                *)

FullConfig ==
    [s \in {"forticare", "customerauth"} |->
        IF s = "forticare" THEN SectionWith("forticare", KeySet(ForticareKeys))
        ELSE SectionWith("customerauth", KeySet(CustomerauthKeys))]

ApiCall(fn, token) == [fn |-> fn, arg |-> PyNone, file_name |-> "", token |-> token]

InitApi ==
    /\ pc = "api"
    /\ config = FullConfig
    /\ glob = Bind(Bind(EmptyObj, <<"logger">>, <<"logger">>),
                   <<"forticare_url", "forticare_client_id", "forticare_api_id",
                     "forticare_api_password", "customerauth_url">>,
                   init_forticare(FullConfig).ret)
    /\ calls = <<>>
    /\ log = <<>>
    /\ fs = [p \in Paths |-> NoFile]
    /\ fs0 = fs
    /\ call = NoCall
    /\ result = NoResult

ApiLogin ==
    /\ \E resp \in TokenResponses :
          LET o == forticare_login(glob["customerauth_url"], glob["forticare_client_id"],
                                   glob["forticare_api_id"],
                                   glob["forticare_api_password"], resp)
          IN  /\ call' = ApiCall("forticare_login", "")
              /\ calls' = Exchange(o.sent, resp)
              /\ result' = [raised |-> o.raised, exc |-> o.exc, ret |-> o.ret]
    /\ UNCHANGED <<pc, config, glob, log, fs, fs0>>

\* the assignment of line 268, after a login that returned
ApiBindLogin ==
    /\ call.fn = "forticare_login"
    /\ ~result.raised
    /\ glob' = Bind(glob, <<"forticare_bearer_token", "forticare_refresh_token">>,
                    result.ret)
    /\ UNCHANGED <<pc, config, calls, log, fs, fs0, call, result>>

ApiListAssets ==
    /\ \E token \in Tokens, resp \in ListResponses :
          LET o == forticare_list_assets(glob["forticare_url"], token, glob, resp)
          IN  /\ call' = ApiCall("forticare_list_assets", token)
              /\ calls' = Exchange(o.sent, resp)
              /\ result' = [raised |-> o.raised, exc |-> o.exc, ret |-> o.ret]
    /\ UNCHANGED <<pc, config, glob, log, fs, fs0>>

ApiProductDetails ==
    /\ \E token \in Tokens, resp \in DetailsResponses :
          LET o == forticare_product_details(glob["forticare_url"], token,
                                             SerialNumber, glob, resp)
          IN  /\ call' = ApiCall("forticare_product_details", token)
              /\ calls' = Exchange(o.sent, resp)
              /\ result' = [raised |-> o.raised, exc |-> o.exc, ret |-> o.ret]
    /\ UNCHANGED <<pc, config, glob, log, fs, fs0>>

NextApi ==
    \/ ApiLogin
    \/ ApiBindLogin
    \/ ApiListAssets
    \/ ApiProductDetails

SpecApi == InitApi /\ [][NextApi]_vars

\* C2: a login answered by a JSON body holding access_token = T and
\* refresh_token = R, whatever else it holds, returns (T, R) and does
\* not raise.
C2_LoginReturnsTokens ==
    (/\ call.fn = "forticare_login"
     /\ Len(calls) = 1
     /\ calls[1].resp.kind = "http" /\ calls[1].resp.valid
     /\ {"access_token", "refresh_token"} \subseteq DOMAIN calls[1].resp.obj)
    => /\ ~result.raised
       /\ result.ret = <<calls[1].resp.obj["access_token"],
                         calls[1].resp.obj["refresh_token"]>>

\* C6: forticare_list_assets and forticare_product_details send their
\* request with Authorization = "Bearer " + the token argument, whatever
\* token the globals hold.
C6_BearerIsTheArgument ==
    (call.fn \in {"forticare_list_assets", "forticare_product_details"} /\ Len(calls) = 1)
    => calls[1].req.auth = Bearer(call.token)

----------------------------------------------------------------------------
(* The CSV writers called on their own (specification SpecCsv): one call   *)
(* of one writer, on any input of the bounded sets, over a file system     *)
(* that holds an older file or none.                                       *)

CsvCall(fn, arg, file_name) == [fn |-> fn, arg |-> arg, file_name |-> file_name, token |-> ""]

CsvCalls ==
    {CsvCall("assets_to_csv", a, AssetsPath) :
         a \in {PyNone} \cup {PyList(l) : l \in ListsOf(FillerAssets, VariedAssets)}}
    \cup {CsvCall("warranty_supports_to_csv", a, WarrantyPath) :
         a \in {PyNone} \cup {PyList(l) : l \in ListsOf(FillerEntries, VariedEntries)}}

InitCsv ==
    /\ pc = "csv_ready"
    /\ config = FullConfig
    /\ glob = EmptyObj
    /\ calls = <<>>
    /\ log = <<>>
    /\ fs \in InitialFs
    /\ fs0 = fs
    /\ call \in CsvCalls
    /\ result = NoResult

CsvAssets ==
    /\ pc = "csv_ready"
    /\ call.fn = "assets_to_csv"
    /\ LET o == assets_to_csv(call.arg, call.file_name, fs)
       IN  /\ fs' = o.fs
           /\ result' = [raised |-> o.raised, exc |-> o.exc, ret |-> <<>>]
    /\ pc' = "csv_returned"
    /\ UNCHANGED <<config, glob, calls, log, fs0, call>>

CsvWarranty ==
    /\ pc = "csv_ready"
    /\ call.fn = "warranty_supports_to_csv"
    /\ LET o == warranty_supports_to_csv(call.arg, call.file_name, fs)
       IN  /\ fs' = o.fs
           /\ result' = [raised |-> o.raised, exc |-> o.exc, ret |-> <<>>]
    /\ pc' = "csv_returned"
    /\ UNCHANGED <<config, glob, calls, log, fs0, call>>

NextCsv ==
    \/ CsvAssets
    \/ CsvWarranty

SpecCsv == InitCsv /\ [][NextCsv]_vars

\* the call under way, as the properties see it
Keys == IF call.fn = "assets_to_csv" THEN AssetKeys ELSE WsKeys
Items == call.arg.v
WellFormed ==
    call.arg.t = "list" /\ \A i \in 1..Len(Items) : HasKeys(Items[i], Keys)
Written == fs[call.file_name]
Records == ParseCsv(Written.text)
Field(i, k) == Items[i][Keys[k]]
OthersUntouched == \A p \in Paths \ {call.file_name} : fs[p] = fs0[p]
Special(s, cs) == \E j \in 1..Len(s) : s[j] \in cs
AllPlain ==
    \A i \in 1..Len(Items), k \in 1..Len(Keys) :
        Field(i, k).t = "str" => ~Special(Field(i, k).v, {DELIM, DQ, LF, CR})

\* C4: assets_to_csv on a list of N assets leaves a file of exactly N+1
\* records, the header and then one row per asset in input order, each row
\* the asset's serialNumber, description, productModel, isDecommissioned,
\* registrationDate as written; whatever the file held before is gone.
C4_AssetsFileIsHeaderPlusRows ==
    (pc = "csv_returned" /\ call.fn = "assets_to_csv" /\ WellFormed) =>
        LET recs == Records
        IN  /\ ~result.raised
            /\ Written.exists
            /\ OthersUntouched
            /\ Len(recs) = Len(Items) + 1
            /\ recs[1] = <<AssetHeader[1].v, AssetHeader[2].v, AssetHeader[3].v,
                           AssetHeader[4].v, AssetHeader[5].v>>
            /\ \A i \in 1..Len(Items) :
                  recs[i + 1] = <<CsvStr(Items[i]["serialNumber"]),
                                  CsvStr(Items[i]["description"]),
                                  CsvStr(Items[i]["productModel"]),
                                  CsvStr(Items[i]["isDecommissioned"]),
                                  CsvStr(Items[i]["registrationDate"])>>

\* two assets written over an older file
C4_Witness ==
    /\ pc = "csv_returned" /\ call.fn = "assets_to_csv" /\ WellFormed
    /\ Len(Items) = 2
    /\ fs0[call.file_name].exists
    /\ fs0[call.file_name].text = OldText

PlainAssetsWritten ==
    pc = "csv_returned" /\ call.fn = "assets_to_csv" /\ WellFormed /\ AllPlain

\* C8, as claimed: assets whose strings hold no delimiter, quote or line
\* break come back from the file equal to the input field for field,
\* the fields that are not strings included.
C8_RoundTripEqualsInput ==
    PlainAssetsWritten =>
        LET recs == Records
        IN  /\ Len(recs) = Len(Items) + 1
            /\ \A i \in 1..Len(Items) :
                  /\ Len(recs[i + 1]) = Len(Keys)
                  /\ \A k \in 1..Len(Keys) : PyEq(PyStr(recs[i + 1][k]), Field(i, k))

\* C8, amended: such assets come back as N records of five fields; a
\* field that was a string comes back equal to it, a boolean comes back
\* as the string "True" or "False" and a null as the empty string.
C8_RoundTripEqualsText ==
    PlainAssetsWritten =>
        LET recs == Records
        IN  /\ Len(recs) = Len(Items) + 1
            /\ \A i \in 1..Len(Items) :
                  /\ Len(recs[i + 1]) = Len(Keys)
                  /\ \A k \in 1..Len(Keys) :
                        LET got == recs[i + 1][k]
                            was == Field(i, k)
                        IN  /\ was.t = "str" => PyEq(PyStr(got), was)
                            /\ was.t = "bool" =>
                                  got = (IF was = PyBool(TRUE) THEN <<"T", "r", "u", "e">>
                                         ELSE <<"F", "a", "l", "s", "e">>)
                            /\ was.t = "None" => got = <<>>

\* two plain assets, one decommissioned and one not, written and read back
C8_Witness ==
    /\ PlainAssetsWritten
    /\ Len(Items) = 2
    /\ Items[1]["isDecommissioned"] = PyBool(TRUE)
    /\ Items[2]["isDecommissioned"] = PyBool(FALSE)
    /\ Items[1]["description"].v = <<"a", "a">>
    /\ Items[1]["registrationDate"] = PyNone

NeedsQuoting(i, k) == Field(i, k).t = "str" /\ Special(Field(i, k).v, {DELIM, LF})

\* C9: after either writer, the file read back has as many records and
\* fields as were written, every string field holding ';' or a line feed
\* is recovered exactly, and it was written between quotes.
C9_QuotedFieldsRecovered ==
    (pc = "csv_returned" /\ WellFormed) =>
        LET recs == Records
        IN  /\ Len(recs) = Len(Items) + 1
            /\ \A i \in 1..Len(recs) : Len(recs[i]) = Len(Keys)
            /\ \A i \in 1..Len(Items), k \in 1..Len(Keys) :
                  NeedsQuoting(i, k) =>
                      /\ recs[i + 1][k] = Field(i, k).v
                      /\ Special(Written.text, {DQ})

\* a warranty file whose entries hold a ';' in one field and a line feed
\* in another
C9_Witness ==
    /\ pc = "csv_returned" /\ call.fn = "warranty_supports_to_csv" /\ WellFormed
    /\ \E i \in 1..Len(Items) : Special(Items[i]["levelDesc"].v, {DELIM})
    /\ \E i \in 1..Len(Items) : Items[i]["levelDesc"].v = <<LF, DQ>>

\* C10: when the input is not a list or one of its records lacks a key,
\* the writer raises and the file system is as it was: the target neither
\* created nor truncated nor partly written.
C10_BadInputLeavesFileAlone ==
    (pc = "csv_returned" /\ ~WellFormed) =>
        /\ result.raised
        /\ fs = fs0

\* assets_to_csv given a list whose second asset lacks a key, with an
\* older file at the target path
C10_Witness ==
    /\ pc = "csv_returned" /\ call.fn = "assets_to_csv"
    /\ call.arg.t = "list" /\ Len(Items) = 2
    /\ HasKeys(Items[1], Keys) /\ ~HasKeys(Items[2], Keys)
    /\ fs0[call.file_name].exists
    /\ result.exc = "KeyError"

====
